---- MODULE Spec2Model ----
(***************************************************************************)
(* A model of utils/request.js: the InterceptorManager registry, the       *)
(* Request client with its promise chain around dispatchRequest, the       *)
(* instance factory and the convenience verbs.                             *)
(*                                                                         *)
(* One step of a promise chain is one action, so that other calls (use,    *)
(* reject, other requests, transport callbacks) interleave between links   *)
(* exactly where the JavaScript job queue lets them.  User supplied        *)
(* interceptor functions are opaque: whether a step returns, throws or      *)
(* returns a promise that settles later is chosen when the step runs.      *)
(***************************************************************************)
EXTENDS Integers, Sequences, FiniteSets, TLC

\* ------------------------------------------------------------------ bounds
MaxUse == 4          \* Spec: use() calls on the client
MaxReject == 1       \* Spec: distinct ids passed to reject()
MaxCallbacks == 2    \* Spec: transport callback invocations per dispatch
MgrMaxUse == 3       \* SpecManager: use() calls on the client's managers
MgrMaxReject == 2    \* SpecManager: distinct ids passed to reject()
MgrMaxId == 2        \* SpecManager: largest id passed to reject()
MaxClients == 2      \* SpecClients, SpecVerbs: instances alive, the singleton included
CliMaxUse == 2       \* SpecClients: use() calls over all instances
CliMaxReject == 1    \* SpecClients: distinct ids passed to reject()
VerbMaxUse == 1      \* SpecVerbs: use() calls over all instances
AsyncMaxUse == 3     \* SpecAsync: use() calls on the client
ConMaxUse == 2       \* SpecConcurrent: use() calls on the client

\* ------------------------------------------------------------------ values
Undefined == [kind |-> "undefined"]

Obj(fields) == [kind |-> "object", fields |-> fields]

EmptyFields == [k \in {} |-> ""]

\* const DEFAULT_HEADER = {'content-type': 'application/json'}
DEFAULT_HEADER == {"content-type=application/json"}

\* {...x}: the own fields of an object, nothing for undefined
Spread(x) == IF x.kind = "object" THEN x.fields ELSE EmptyFields

\* {...a, ...b}: fields of b win
Merge(a, b) ==
    [k \in (DOMAIN a) \cup (DOMAIN b) |-> IF k \in DOMAIN b THEN b[k] ELSE a[k]]

\* configurations a caller may pass as instance defaults
DefaultConfigs == {Undefined, Obj([header |-> DEFAULT_HEADER])}

\* configurations a caller may pass to request()
PingConfig == Obj([url |-> "/ping", method |-> "get"])

RequestConfigs == {PingConfig, Obj([url |-> "/ping", method |-> "get", header |-> {"a=1"}])}

\* the configurations of the request() calls made while others are in
\* flight, in the order of the calls
ConcurrentConfigs ==
    << Obj([url |-> "/first", method |-> "get"]),
       Obj([url |-> "/second", method |-> "get", header |-> {"a=1"}]) >>

\* configurations a caller may pass to a verb; undefined when omitted
VerbConfigs ==
    { Undefined,
      Obj([headers |-> {"a=1"}]),
      Obj([method |-> "trace", url |-> "/other", data |-> "old"]) }

Urls == {"/ping"}
Datas == {"body"}

\* what the platform hands to success / fail
SuccessPayloads == {[kind |-> "response", statusCode |-> 200]}
FailPayloads == {[kind |-> "error", by |-> "transport", at |-> 0]}

\* the error an interceptor step throws
ThrownBy(name) == [kind |-> "error", by |-> "interceptor", at |-> name]

\* the value a rejection handler recovers with
RecoveredBy(name) == [kind |-> "recovered", at |-> name]

\* the error the promise of an interceptor step is rejected with
RejectedBy(name) == [kind |-> "error", by |-> "promise", at |-> name]

\* a request interceptor that fetches a token and adds it as
\* header['x-token'] when it has come
AddLateToken(v) ==
    IF v.kind = "object"
    THEN Obj(Merge(v.fields,
                   [header |-> (IF "header" \in DOMAIN v.fields
                                THEN v.fields.header ELSE {}) \cup {"x-token=late"}]))
    ELSE v

\* a request interceptor that adds header['x-token'] = 'abc'
AddToken(v) ==
    IF v.kind = "object"
    THEN Obj(Merge(v.fields,
                   [header |-> (IF "header" \in DOMAIN v.fields
                                THEN v.fields.header ELSE {}) \cup {"x-token=abc"}]))
    ELSE v

\* ------------------------------------------------------------------ state
VARIABLES
    clients,     \* the Request instances; clients[1] is the exported singleton
    requests,    \* the request() calls made so far, each with its promise chain
    issued,      \* history: per client and phase, the ids use() returned, in call order
    ejected      \* history: the [client, phase, id] passed to reject()

vars == <<clients, requests, issued, ejected>>

Phases == {"request", "response"}

\* the k-th handler registered with the manager of a phase
Name(phase, k) == [phase |-> phase, k |-> k]

NoName == [phase |-> "", k |-> 0]

\* ------------------------------------------------------ InterceptorManager
Null == [tag |-> "null", name |-> NoName, fulfilled |-> FALSE, rejected |-> FALSE]

\* the hole an out-of-range write leaves between the old end and the index
Hole == [tag |-> "hole", name |-> NoName, fulfilled |-> FALSE, rejected |-> FALSE]

Handler(name, fulfilled, rejected) ==
    [tag |-> "handler", name |-> name, fulfilled |-> fulfilled, rejected |-> rejected]

\* function InterceptorManager() { this.handlers = [] }
InterceptorManager == [handlers |-> << >>]

\* variant of use: unshift instead of push
UseHandlersUnshift(handlers, h) == <<h>> \o handlers

\* use: push the pair, return length - 1
UseHandlers(handlers, h) == Append(handlers, h)

\* variant of use: return this.handlers.length
UseIdLength(handlers, h) == Len(UseHandlers(handlers, h))

UseId(handlers, h) == Len(UseHandlers(handlers, h)) - 1

\* variant of reject: splice(id, 1) instead of the write of null
RejectHandlersSplice(handlers, id) ==
    IF id + 1 > Len(handlers) THEN handlers
    ELSE SubSeq(handlers, 1, id) \o SubSeq(handlers, id + 2, Len(handlers))

\* reject: this.handlers[id] = null, for an id in 0, 1, 2, ...  Indices are
\* zero-based; a write at or past the end grows the array and leaves holes
\* in between.
RejectHandlers(handlers, id) ==
    [i \in 1..(IF id + 1 > Len(handlers) THEN id + 1 ELSE Len(handlers)) |->
        IF i = id + 1 THEN Null
        ELSE IF i <= Len(handlers) THEN handlers[i]
        ELSE Hole]

\* forEach: Array.prototype.forEach skips holes, the callback skips nulls
ForEachVisit(h) == h.tag = "handler"

ForEach(handlers) == SelectSeq(handlers, ForEachVisit)

\* ------------------------------------------------------------------ Request
\* function Request(instanceConfig)
Request(instanceConfig) ==
    [defaults |-> instanceConfig,
     interceptors |-> [request |-> InterceptorManager,
                       response |-> InterceptorManager]]

createInstance(defaultConfig) == Request(defaultConfig)

\* the functions a chain holds
DispatchFn == [fn |-> "dispatchRequest", name |-> NoName]

UndefinedFn == [fn |-> "undefined", name |-> NoName]

FulfilledOf(h) == IF h.fulfilled THEN [fn |-> "fulfilled", name |-> h.name] ELSE UndefinedFn

RejectedOf(h) == IF h.rejected THEN [fn |-> "rejected", name |-> h.name] ELSE UndefinedFn

Pair(f, r) == [fulfilled |-> f, rejected |-> r]

\* variant of the request loop: push instead of unshift
UnshiftAsPush(chain, h) == Append(chain, Pair(FulfilledOf(h), RejectedOf(h)))

\* chain.unshift(interceptor.fulfilled, interceptor.rejected)
Unshift(chain, h) == <<Pair(FulfilledOf(h), RejectedOf(h))>> \o chain

\* variant of the response loop: the two functions pushed in the other order
PushSwapped(chain, h) == Append(chain, Pair(RejectedOf(h), FulfilledOf(h)))

\* chain.push(interceptor.fulfilled, interceptor.rejected)
Push(chain, h) == Append(chain, Pair(FulfilledOf(h), RejectedOf(h)))

RECURSIVE UnshiftEach(_, _)
UnshiftEach(chain, visited) ==
    IF visited = << >> THEN chain
    ELSE UnshiftEach(Unshift(chain, Head(visited)), Tail(visited))

RECURSIVE PushEach(_, _)
PushEach(chain, visited) ==
    IF visited = << >> THEN chain
    ELSE PushEach(Push(chain, Head(visited)), Tail(visited))

\* var chain = [dispatchRequest, undefined]; then the two forEach loops
BuildChain(client) ==
    PushEach(UnshiftEach(<<Pair(DispatchFn, UndefinedFn)>>,
                         ForEach(client.interceptors.request.handlers)),
             ForEach(client.interceptors.response.handlers))

\* var promise = Promise.resolve(config)
InitialValue(client, config) == config

\* the state of one request() call right after it returns: the chain is
\* built, no link has run, the first promise is fulfilled with the config
NewRequest(c, verb, callerConfig, config) ==
    [client |-> c, verb |-> verb, callerConfig |-> callerConfig, config |-> config,
     url |-> "", data |-> "",
     chain |-> BuildChain(clients[c]),
     pos |-> 1, state |-> "fulfilled", value |-> InitialValue(clients[c], config),
     log |-> << >>,
     dispatch |-> "idle", dispatchValue |-> Undefined,
     sent |-> << >>, callbacks |-> << >>]

\* variant of the verbs without data: {method: method, url: url, ...config}
NoDataConfigCallerWins(method, url, config) ==
    Obj(Merge([method |-> method, url |-> url], Spread(config)))

\* {...config || {}, method: method, url: url}
NoDataConfig(method, url, config) ==
    Obj(Merge(Spread(config), [method |-> method, url |-> url]))

\* {...config || {}, method: method, url: url, data: data}
WithDataConfig(method, url, data, config) ==
    Obj(Merge(Spread(config), [method |-> method, url |-> url, data |-> data]))

NoDataMethods == {"delete", "get", "head", "options"}

WithDataMethods == {"post", "put", "patch"}

\* ------------------------------------------------------------ promise steps
\* variant of then: the fulfilled function runs however the link before settled
SelectedIgnoringState(state, pair) == pair.fulfilled

\* promise.then(onFulfilled, onRejected): the function the link runs
Selected(state, pair) == IF state = "fulfilled" THEN pair.fulfilled ELSE pair.rejected

\* variant of then: a link without a function for a rejection fulfils
PassOnFulfilled(state, value) == [state |-> "fulfilled", value |-> value]

\* a link whose selected function is undefined hands on state and value
PassOn(state, value) == [state |-> state, value |-> value]

\* variant of dispatchRequest: wx.request({...config, success: resolve})
SettleSuccessOnly(d, dv, cb, payload) ==
    IF d = "pending" /\ cb = "success" THEN [state |-> "fulfilled", value |-> payload]
    ELSE [state |-> d, value |-> dv]

\* variant of resolve / reject: every call settles the promise anew
SettleLastWins(d, dv, cb, payload) ==
    [state |-> (IF cb = "success" THEN "fulfilled" ELSE "rejected"), value |-> payload]

\* resolve / reject of the promise made in dispatchRequest: the first call
\* settles it, later calls do nothing
Settle(d, dv, cb, payload) ==
    IF d = "pending"
    THEN [state |-> (IF cb = "success" THEN "fulfilled" ELSE "rejected"), value |-> payload]
    ELSE [state |-> d, value |-> dv]

\* variant of dispatchRequest: wx.request({success: resolve, fail: reject})
SentNothing(config) == EmptyFields

\* wx.request({...config, success: resolve, fail: reject}): what is sent
Sent(config) == Spread(config)

\* variant of the constructor: one handlers array shared by the managers of
\* a phase of all clients
SetHandlersShared(cs, c, phase, hs) ==
    [i \in 1..Len(cs) |-> [cs[i] EXCEPT !.interceptors[phase].handlers = hs]]

\* this.handlers of the manager of one phase of one client
SetHandlers(cs, c, phase, hs) == [cs EXCEPT ![c].interceptors[phase].handlers = hs]

HandlersOf(c, phase) == clients[c].interceptors[phase].handlers

Clients == 1..Len(clients)

RECURSIVE UsesUpTo(_)
UsesUpTo(n) ==
    IF n = 0 THEN 0
    ELSE UsesUpTo(n - 1) + Len(issued[n].request) + Len(issued[n].response)

\* the number of use() calls made so far
Uses == UsesUpTo(Len(issued))

NoIds == [request |-> << >>, response |-> << >>]

\* ------------------------------------------------------------------ actions
Init ==
    /\ clients = <<createInstance(Undefined)>>
    /\ requests = << >>
    /\ issued = <<NoIds>>
    /\ ejected = {}

\* request.create(config)
Create(config) ==
    /\ clients' = Append(clients, createInstance(config))
    /\ issued' = Append(issued, NoIds)
    /\ UNCHANGED <<requests, ejected>>

\* client.interceptors[phase].use(fulfilled, rejected)
Use(c, phase, fulfilled, rejected) ==
    /\ LET h == Handler(Name(phase, Len(issued[c][phase]) + 1), fulfilled, rejected)
       IN /\ clients' = SetHandlers(clients, c, phase, UseHandlers(HandlersOf(c, phase), h))
          /\ issued' = [issued EXCEPT ![c][phase] = Append(@, UseId(HandlersOf(c, phase), h))]
    /\ UNCHANGED <<requests, ejected>>

\* client.interceptors[phase].reject(id)
Reject(c, phase, id) ==
    /\ clients' = SetHandlers(clients, c, phase, RejectHandlers(HandlersOf(c, phase), id))
    /\ ejected' = ejected \cup {[client |-> c, phase |-> phase, id |-> id]}
    /\ UNCHANGED <<requests, issued>>

\* client.request(config)
CallRequest(c, config) ==
    /\ requests' = Append(requests, NewRequest(c, "request", config, config))
    /\ UNCHANGED <<clients, issued, ejected>>

\* client.delete / get / head / options (url, config)
CallNoData(c, method, url, config) ==
    /\ requests' = Append(requests,
          [NewRequest(c, method, config, NoDataConfig(method, url, config))
             EXCEPT !.url = url])
    /\ UNCHANGED <<clients, issued, ejected>>

\* client.post / put / patch (url, data, config)
CallWithData(c, method, url, data, config) ==
    /\ requests' = Append(requests,
          [NewRequest(c, method, config, WithDataConfig(method, url, data, config))
             EXCEPT !.url = url, !.data = data])
    /\ UNCHANGED <<clients, issued, ejected>>

\* variant of the loop: a link's function does not wait for the link before
RunnableEager(r) == requests[r].pos <= Len(requests[r].chain)

Runnable(r) ==
    /\ requests[r].pos <= Len(requests[r].chain)
    /\ requests[r].state # "pending"

\* variant of request(): the link is looked up in the managers when its turn
\* comes, not in the array built at the call
LinkLive(r) == BuildChain(clients[requests[r].client])[requests[r].pos]

Link(r) == requests[r].chain[requests[r].pos]

\* one executed step: the function, its link's place in the chain, the value
\* it received, whether it threw, and how it left its link
Entry(fn, at, arg, threw, out) ==
    [fn |-> fn.fn, name |-> fn.name, at |-> at, arg |-> arg, threw |-> threw, out |-> out]

\* the link of a function that returned value / threw value
Returned(value) == [state |-> "fulfilled", value |-> value]

Threw(value) == [state |-> "rejected", value |-> value]

\* the link of dispatchRequest until the platform calls back
Waiting == [state |-> "pending", value |-> Undefined]

\* a link with no function for the way the previous link settled
PassThrough(r) ==
    /\ Runnable(r)
    /\ Selected(requests[r].state, Link(r)) = UndefinedFn
    /\ LET q == requests[r]
           out == PassOn(q.state, q.value)
       IN requests' = [requests EXCEPT ![r] =
              [q EXCEPT !.pos = q.pos + 1, !.state = out.state, !.value = out.value]]
    /\ UNCHANGED <<clients, issued, ejected>>

\* an interceptor's fulfilled function runs: it returns a value or throws
RunFulfilled(r, throws) ==
    /\ Runnable(r)
    /\ Selected(requests[r].state, Link(r)).fn = "fulfilled"
    /\ LET q == requests[r]
           fn == Selected(q.state, Link(r))
           out == IF throws THEN Threw(ThrownBy(fn.name)) ELSE Returned(AddToken(q.value))
       IN requests' = [requests EXCEPT ![r] =
              [q EXCEPT !.pos = q.pos + 1,
                        !.log = Append(q.log, Entry(fn, q.pos, q.value, throws, out)),
                        !.state = out.state,
                        !.value = out.value]]
    /\ UNCHANGED <<clients, issued, ejected>>

\* an interceptor's rejected function runs: it recovers with a value or throws
RunRejected(r, throws) ==
    /\ Runnable(r)
    /\ Selected(requests[r].state, Link(r)).fn = "rejected"
    /\ LET q == requests[r]
           fn == Selected(q.state, Link(r))
           out == IF throws THEN Threw(ThrownBy(fn.name)) ELSE Returned(RecoveredBy(fn.name))
       IN requests' = [requests EXCEPT ![r] =
              [q EXCEPT !.pos = q.pos + 1,
                        !.log = Append(q.log, Entry(fn, q.pos, q.value, throws, out)),
                        !.state = out.state,
                        !.value = out.value]]
    /\ UNCHANGED <<clients, issued, ejected>>

\* variant of request(): the config is kept in one variable shared by all
\* calls, so dispatchRequest sends what the latest call put there
DispatchLatest(r) ==
    /\ Runnable(r)
    /\ Selected(requests[r].state, Link(r)) = DispatchFn
    /\ LET q == requests[r]
       IN requests' = [requests EXCEPT ![r] =
              [q EXCEPT !.log = Append(q.log, Entry(DispatchFn, q.pos, q.value, FALSE, Waiting)),
                        !.sent = Append(q.sent, Sent(requests[Len(requests)].value)),
                        !.dispatch = "pending",
                        !.state = "pending"]]
    /\ UNCHANGED <<clients, issued, ejected>>

\* dispatchRequest(config) runs: wx.request is called, the link waits
Dispatch(r) ==
    /\ Runnable(r)
    /\ Selected(requests[r].state, Link(r)) = DispatchFn
    /\ LET q == requests[r]
       IN requests' = [requests EXCEPT ![r] =
              [q EXCEPT !.log = Append(q.log, Entry(DispatchFn, q.pos, q.value, FALSE, Waiting)),
                        !.sent = Append(q.sent, Sent(q.value)),
                        !.dispatch = "pending",
                        !.state = "pending"]]
    /\ UNCHANGED <<clients, issued, ejected>>

\* the platform calls success(payload) or fail(payload)
Callback(r, cb, payload) ==
    /\ requests[r].dispatch # "idle"
    /\ LET q == requests[r]
           d == Settle(q.dispatch, q.dispatchValue, cb, payload)
       IN requests' = [requests EXCEPT ![r] =
              [q EXCEPT !.callbacks = Append(q.callbacks, [cb |-> cb, payload |-> payload]),
                        !.dispatch = d.state,
                        !.dispatchValue = d.value,
                        !.state = IF q.dispatch = "pending" THEN d.state ELSE q.state,
                        !.value = IF q.dispatch = "pending" THEN d.value ELSE q.value,
                        !.pos = IF q.dispatch = "pending" /\ d.state # "pending"
                                THEN q.pos + 1 ELSE q.pos]]
    /\ UNCHANGED <<clients, issued, ejected>>

\* an interceptor's function runs and returns a promise that is still
\* pending: the link waits for it as the link of dispatch waits for the
\* platform
RunAsync(r) ==
    /\ Runnable(r)
    /\ Selected(requests[r].state, Link(r)).fn \in {"fulfilled", "rejected"}
    /\ LET q == requests[r]
           fn == Selected(q.state, Link(r))
       IN requests' = [requests EXCEPT ![r] =
              [q EXCEPT !.log = Append(q.log, Entry(fn, q.pos, q.value, FALSE, Waiting)),
                        !.state = "pending"]]
    /\ UNCHANGED <<clients, issued, ejected>>

\* the step of an interceptor whose promise is pending
AsyncPending(q) ==
    /\ q.state = "pending"
    /\ q.log # << >>
    /\ q.log[Len(q.log)].fn # "dispatchRequest"
    /\ q.log[Len(q.log)].out = Waiting

\* the promise an interceptor's function returned settles: the link settles
\* the same way
SettleAsync(r, fulfils) ==
    /\ AsyncPending(requests[r])
    /\ LET q == requests[r]
           e == q.log[Len(q.log)]
           out == IF ~fulfils THEN Threw(RejectedBy(e.name))
                  ELSE IF e.fn = "fulfilled" THEN Returned(AddLateToken(e.arg))
                  ELSE Returned(RecoveredBy(e.name))
       IN requests' = [requests EXCEPT ![r] =
              [q EXCEPT !.pos = q.pos + 1,
                        !.log[Len(q.log)].out = out,
                        !.state = out.state,
                        !.value = out.value]]
    /\ UNCHANGED <<clients, issued, ejected>>

\* the steps of the requests in flight
StepPassThrough == \E r \in 1..Len(requests) : PassThrough(r)

StepFulfilled == \E r \in 1..Len(requests), throws \in BOOLEAN : RunFulfilled(r, throws)

StepRejected == \E r \in 1..Len(requests), throws \in BOOLEAN : RunRejected(r, throws)

StepDispatch == \E r \in 1..Len(requests) : Dispatch(r)

\* the platform calls back, at most maxCallbacks times per dispatch
StepSuccess(maxCallbacks) ==
    \E r \in 1..Len(requests), payload \in SuccessPayloads :
        Len(requests[r].callbacks) < maxCallbacks /\ Callback(r, "success", payload)

StepFail(maxCallbacks) ==
    \E r \in 1..Len(requests), payload \in FailPayloads :
        Len(requests[r].callbacks) < maxCallbacks /\ Callback(r, "fail", payload)

StepAsync == \E r \in 1..Len(requests) : RunAsync(r)

StepSettleAsync == \E r \in 1..Len(requests), fulfils \in BOOLEAN : SettleAsync(r, fulfils)

MayReject(c, phase, id, max) ==
    Cardinality(ejected \cup {[client |-> c, phase |-> phase, id |-> id]}) <= max

\* ---------------------------------------------------------------------------
\* Spec: the exported singleton, its two managers and one request() call
\* made after the interceptors are set up.  use() is given at least one
\* function; ids passed to reject() are ids use() has returned.
IssuedIds(c, phase) == {issued[c][phase][k] : k \in 1..Len(issued[c][phase])}

Next ==
    \/ \E phase \in Phases, f \in BOOLEAN, rj \in BOOLEAN :
          (f \/ rj) /\ requests = << >> /\ Uses < MaxUse /\ Use(1, phase, f, rj)
    \/ \E phase \in Phases : \E id \in IssuedIds(1, phase) :
          requests = << >> /\ MayReject(1, phase, id, MaxReject) /\ Reject(1, phase, id)
    \/ requests = << >> /\ CallRequest(1, PingConfig)
    \/ StepPassThrough
    \/ StepFulfilled
    \/ StepRejected
    \/ StepDispatch
    \/ StepSuccess(MaxCallbacks)
    \/ StepFail(MaxCallbacks)

Spec == Init /\ [][Next]_vars

\* ---------------------------------------------------------------------------
\* SpecManager: the managers of one client under use() and reject() with any
\* id, issued or not.
NextManager ==
    \/ \E phase \in Phases, f \in BOOLEAN, rj \in BOOLEAN :
          (f \/ rj) /\ Uses < MgrMaxUse /\ Use(1, phase, f, rj)
    \/ \E phase \in Phases, id \in 0..MgrMaxId :
          MayReject(1, phase, id, MgrMaxReject) /\ Reject(1, phase, id)

SpecManager == Init /\ [][NextManager]_vars

\* ---------------------------------------------------------------------------
\* SpecClients: the singleton and the instances create() returns; use() and
\* reject() on any of them at any time, also while a request is in flight.
\* The platform calls back once per dispatch.
NextClients ==
    \/ Len(clients) < MaxClients /\ Create(Undefined)
    \/ \E c \in Clients, phase \in Phases, rj \in BOOLEAN :
          Uses < CliMaxUse /\ Use(c, phase, TRUE, rj)
    \/ \E c \in Clients, phase \in Phases : \E id \in IssuedIds(c, phase) :
          MayReject(c, phase, id, CliMaxReject) /\ Reject(c, phase, id)
    \/ \E c \in Clients : requests = << >> /\ CallRequest(c, PingConfig)
    \/ StepPassThrough
    \/ StepFulfilled
    \/ StepRejected
    \/ StepDispatch
    \/ StepSuccess(1)
    \/ StepFail(1)

SpecClients == Init /\ [][NextClients]_vars

\* ---------------------------------------------------------------------------
\* SpecVerbs: request() and the verbs on the singleton and on created
\* instances with their defaults, with request interceptors that add a header
\* and have no rejected function.  The platform calls back once per dispatch.
NextVerbs ==
    \/ \E config \in DefaultConfigs : Len(clients) < MaxClients /\ Create(config)
    \/ \E c \in Clients :
          requests = << >> /\ Uses < VerbMaxUse /\ Use(c, "request", TRUE, FALSE)
    \/ \E c \in Clients, config \in RequestConfigs :
          requests = << >> /\ CallRequest(c, config)
    \/ \E c \in Clients, m \in NoDataMethods, url \in Urls, config \in VerbConfigs :
          requests = << >> /\ CallNoData(c, m, url, config)
    \/ \E c \in Clients, m \in WithDataMethods, url \in Urls, data \in Datas,
          config \in VerbConfigs : requests = << >> /\ CallWithData(c, m, url, data, config)
    \/ StepPassThrough
    \/ StepFulfilled
    \/ StepDispatch
    \/ StepSuccess(1)
    \/ StepFail(1)

SpecVerbs == Init /\ [][NextVerbs]_vars

\* ---------------------------------------------------------------------------
\* SpecAsync: the singleton and one request() call made after the
\* interceptors are set up; the function of an interceptor returns, throws,
\* or returns a promise that settles later.  The platform calls back once.
NextAsync ==
    \/ \E phase \in Phases, f \in BOOLEAN, rj \in BOOLEAN :
          (f \/ rj) /\ requests = << >> /\ Uses < AsyncMaxUse /\ Use(1, phase, f, rj)
    \/ requests = << >> /\ CallRequest(1, PingConfig)
    \/ StepPassThrough
    \/ StepFulfilled
    \/ StepRejected
    \/ StepAsync
    \/ StepSettleAsync
    \/ StepDispatch
    \/ StepSuccess(1)
    \/ StepFail(1)

SpecAsync == Init /\ [][NextAsync]_vars

\* the then-reactions of settled promises are run by the job queue, the
\* platform calls success or fail for every request it was given, and the
\* promise an interceptor returned settles
SpecAsyncFair ==
    /\ SpecAsync
    /\ WF_vars(StepPassThrough \/ StepFulfilled \/ StepRejected \/ StepAsync \/ StepDispatch)
    /\ WF_vars(StepSuccess(1) \/ StepFail(1))
    /\ WF_vars(StepSettleAsync)

\* ---------------------------------------------------------------------------
\* SpecConcurrent: several request() calls on the singleton, made one after
\* another while the earlier ones are in flight, after the interceptors are
\* set up.  The links of the requests interleave in any order.  The platform
\* calls back once per dispatch.
NextConcurrent ==
    \/ \E phase \in Phases, rj \in BOOLEAN :
          requests = << >> /\ Uses < ConMaxUse /\ Use(1, phase, TRUE, rj)
    \/ Len(requests) < Len(ConcurrentConfigs)
          /\ CallRequest(1, ConcurrentConfigs[Len(requests) + 1])
    \/ StepPassThrough
    \/ StepFulfilled
    \/ StepRejected
    \/ StepDispatch
    \/ StepSuccess(1)
    \/ StepFail(1)

SpecConcurrent == Init /\ [][NextConcurrent]_vars

\* ===========================================================================
\* Properties
\* ===========================================================================
NamesOf(hs) == [i \in 1..Len(hs) |-> hs[i].name]

\* the names forEach hands to its callback, in visiting order
Visited(c, phase) == NamesOf(ForEach(HandlersOf(c, phase)))

Ejected(c, phase, id) == [client |-> c, phase |-> phase, id |-> id] \in ejected

NoRejectOn(c, phase) == \A e \in ejected : ~(e.client = c /\ e.phase = phase)

\* C6: on a manager that has seen use calls only, the k-th use (from 0)
\* returned k, and forEach visits every handler once, in insertion order.
C6_UseIdsAndOrder ==
    \A c \in Clients, phase \in Phases :
        NoRejectOn(c, phase) =>
            LET n == Len(issued[c][phase])
            IN /\ \A k \in 1..n : issued[c][phase][k] = k - 1
               /\ Visited(c, phase) = [k \in 1..n |-> Name(phase, k)]

C6_Witness ==
    \E phase \in Phases :
        /\ NoRejectOn(1, phase)
        /\ Len(issued[1][phase]) >= 3
        /\ Len(Visited(1, phase)) >= 3

\* C7, in every state: the handler of an issued id that was passed to reject
\* is not visited and its slot holds null; the handler of every other issued
\* id is still stored at its id; the handlers that remain are visited in the
\* order they were registered in.
C7_State ==
    \A c \in Clients, phase \in Phases :
        LET hs == HandlersOf(c, phase)
            ids == issued[c][phase]
            seen == Visited(c, phase)
        IN /\ \A k \in 1..Len(ids) :
                 /\ ids[k] + 1 <= Len(hs)
                 /\ IF Ejected(c, phase, ids[k])
                    THEN /\ hs[ids[k] + 1] = Null
                         /\ \A i \in 1..Len(seen) : seen[i] # Name(phase, k)
                    ELSE /\ hs[ids[k] + 1].tag = "handler"
                         /\ hs[ids[k] + 1].name = Name(phase, k)
                         /\ \E i \in 1..Len(seen) : seen[i] = Name(phase, k)
           /\ \A i, j \in 1..Len(seen) : i < j => seen[i].k < seen[j].k

\* C7, in every step: a slot that holds a handler keeps it unchanged unless
\* reject is called with that slot's id, and a slot that holds no handler
\* never holds one again.
C7_Step ==
    \A c \in Clients, phase \in Phases :
        LET hs == HandlersOf(c, phase)
            hs2 == clients'[c].interceptors[phase].handlers
        IN \A i \in 1..Len(hs) :
              /\ i <= Len(hs2)
              /\ hs[i].tag = "handler" =>
                    \/ hs2[i] = hs[i]
                    \/ hs2[i] = Null /\ [client |-> c, phase |-> phase, id |-> i - 1] \in ejected'
              /\ hs[i].tag # "handler" => hs2[i].tag # "handler"

\* C7: after reject(id) for an issued id the handler is skipped for good,
\* every other handler stays at its id unchanged, and the visiting order of
\* the remaining handlers stays the registration order.
C7_RejectSkipsOnlyThatHandler == []C7_State /\ [][C7_Step]_vars

\* an issued id was rejected, a handler issued before it and one issued after
\* the reject's target are still visited
C7_Witness ==
    \E phase \in Phases :
        /\ Len(issued[1][phase]) >= 3
        /\ Ejected(1, phase, issued[1][phase][2])
        /\ Visited(1, phase) = <<Name(phase, 1), Name(phase, 3)>>

\* ---------------------------------------------------------------------------
RECURSIVE Reverse(_)
Reverse(seq) == IF seq = << >> THEN << >> ELSE Append(Reverse(Tail(seq)), Head(seq))

HasFulfilled(h) == h.fulfilled

\* the names of the visited handlers of a phase that have a fulfilled function
FulfilledNames(c, phase) == NamesOf(SelectSeq(ForEach(HandlersOf(c, phase)), HasFulfilled))

\* the functions a request ran, in the order they ran
Ran(q) == [i \in 1..Len(q.log) |-> [fn |-> q.log[i].fn, name |-> q.log[i].name]]

RanStep(fn, name) == [fn |-> fn, name |-> name]

FulfilledSteps(names) == [i \in 1..Len(names) |-> RanStep("fulfilled", names[i])]

\* the order the registry of a client asks for when every step fulfils
ExpectedOrder(c) ==
    FulfilledSteps(Reverse(FulfilledNames(c, "request")))
        \o <<RanStep("dispatchRequest", NoName)>>
        \o FulfilledSteps(FulfilledNames(c, "response"))

Finished(q) == q.pos > Len(q.chain)

NoFailureSoFar(q) ==
    /\ q.state # "rejected"
    /\ \A i \in 1..Len(q.log) : q.log[i].fn # "rejected" /\ ~q.log[i].threw

IsPrefix(a, b) == Len(a) <= Len(b) /\ a = SubSeq(b, 1, Len(a))

\* C1: while every step of a request fulfils, the steps that ran are the
\* fulfilled functions of the request interceptors in reverse registration
\* order, then dispatch, then those of the response interceptors in
\* registration order; a request that finished this way ran all of them.
C1_ExecutionOrder ==
    \A r \in 1..Len(requests) :
        LET q == requests[r]
        IN NoFailureSoFar(q) =>
              /\ IsPrefix(Ran(q), ExpectedOrder(q.client))
              /\ Finished(q) => Ran(q) = ExpectedOrder(q.client)

\* request interceptors A, B and response interceptors X, Y; the request
\* finished fulfilled after B, A, dispatch, X, Y
C1_Witness ==
    /\ Len(requests) = 1
    /\ Finished(requests[1])
    /\ requests[1].state = "fulfilled"
    /\ Ran(requests[1]) = << RanStep("fulfilled", Name("request", 2)),
                             RanStep("fulfilled", Name("request", 1)),
                             RanStep("dispatchRequest", NoName),
                             RanStep("fulfilled", Name("response", 1)),
                             RanStep("fulfilled", Name("response", 2)) >>

\* ---------------------------------------------------------------------------
Min(S) == CHOOSE x \in S : \A y \in S : x <= y

\* the links after place p of a chain that have a rejected function
RejectingAfter(q, p) == {i \in (p + 1)..Len(q.chain) : q.chain[i].rejected # UndefinedFn}

\* the links after place p of a chain that have a fulfilled function
FulfillingAfter(q, p) == {i \in (p + 1)..Len(q.chain) : q.chain[i].fulfilled # UndefinedFn}

\* a request interceptor's fulfilled function threw
RequestStepThrew(e) == e.fn = "fulfilled" /\ e.name.phase = "request" /\ e.threw

\* C3 as stated: after a request interceptor's fulfilled function threw,
\* neither dispatch nor any fulfilled function runs; the error goes to the
\* nearest later pair with a rejected function, and without one the request
\* fails with that error.
C3_AsStated ==
    \A r \in 1..Len(requests) :
        LET q == requests[r]
        IN \A i \in 1..Len(q.log) :
              RequestStepThrew(q.log[i]) =>
                 /\ \A j \in (i + 1)..Len(q.log) :
                       q.log[j].fn = "rejected"
                 /\ RejectingAfter(q, q.log[i].at) # {} /\ Len(q.log) > i =>
                       /\ q.log[i + 1].at = Min(RejectingAfter(q, q.log[i].at))
                       /\ q.log[i + 1].arg = q.log[i].out.value
                 /\ RejectingAfter(q, q.log[i].at) = {} /\ Finished(q) =>
                       q.state = "rejected" /\ q.value = q.log[i].out.value

\* C3, amended: after a request interceptor's fulfilled function threw, no
\* function runs until the nearest later pair with a rejected function, which
\* receives the error (dispatch is skipped when it lies in between); without
\* such a pair nothing runs any more, wx.request is never called and the
\* request fails with that same error.
C3_ErrorSkipsToRejectionHandler ==
    \A r \in 1..Len(requests) :
        LET q == requests[r]
        IN \A i \in 1..Len(q.log) :
              RequestStepThrew(q.log[i]) =>
                 LET e == q.log[i]
                     later == RejectingAfter(q, e.at)
                 IN IF later = {}
                    THEN /\ Len(q.log) = i
                         /\ q.sent = << >>
                         /\ q.state = "rejected"
                         /\ q.value = e.out.value
                         /\ e.out.value = ThrownBy(e.name)
                    ELSE /\ q.pos <= Min(later) =>
                            /\ Len(q.log) = i
                            /\ q.state = "rejected"
                            /\ q.value = e.out.value
                         /\ q.pos > Min(later) =>
                            /\ Len(q.log) > i
                            /\ q.log[i + 1].fn = "rejected"
                            /\ q.log[i + 1].at = Min(later)
                            /\ q.log[i + 1].name = q.chain[Min(later)].rejected.name
                            /\ q.log[i + 1].arg = ThrownBy(e.name)

\* a request interceptor threw, no later pair has a rejected function, a
\* response interceptor with a fulfilled function was registered, and the
\* request finished failed with the thrown error, wx.request never called
C3_Witness ==
    /\ Len(requests) = 1
    /\ Finished(requests[1])
    /\ Len(requests[1].log) = 1
    /\ RequestStepThrew(requests[1].log[1])
    /\ RejectingAfter(requests[1], requests[1].log[1].at) = {}
    /\ FulfilledNames(1, "response") # << >>
    /\ requests[1].sent = << >>
    /\ requests[1].state = "rejected"
    /\ requests[1].value = ThrownBy(requests[1].log[1].name)

\* ---------------------------------------------------------------------------
\* the place of dispatchRequest in a chain
DispatchAt(q) == CHOOSE p \in 1..Len(q.chain) : q.chain[p].fulfilled = DispatchFn

\* the steps a request ran at links after dispatch
RanAfterDispatch(q) == {i \in 1..Len(q.log) : q.log[i].at > DispatchAt(q)}

DispatchFailed(q) == q.callbacks # << >> /\ q.callbacks[1].cb = "fail"

\* C4: when dispatch fails with e and no response interceptor has a rejected
\* function, no step runs after dispatch and the request fails with e.
C4_DispatchFailureUnchanged ==
    \A r \in 1..Len(requests) :
        LET q == requests[r]
        IN DispatchFailed(q) /\ RejectingAfter(q, DispatchAt(q)) = {} =>
              /\ RanAfterDispatch(q) = {}
              /\ q.state = "rejected"
              /\ q.value = q.callbacks[1].payload

\* dispatch failed, response interceptors with fulfilled functions only are
\* registered, and the request finished
C4_Witness ==
    /\ Len(requests) = 1
    /\ DispatchFailed(requests[1])
    /\ RejectingAfter(requests[1], DispatchAt(requests[1])) = {}
    /\ FulfillingAfter(requests[1], DispatchAt(requests[1])) # {}
    /\ Finished(requests[1])
    /\ requests[1].value \in FailPayloads

\* the step a request ran right after step i, given how step i left its link:
\* it is the function for that state at the nearest later link that has one,
\* and it received the value of step i
FollowsOn(q, i, state, value) ==
    LET later == IF state = "fulfilled" THEN FulfillingAfter(q, q.log[i].at)
                 ELSE RejectingAfter(q, q.log[i].at)
    IN IF later = {}
       THEN /\ Len(q.log) = i
            /\ q.state = state
            /\ q.value = value
       ELSE /\ q.pos <= Min(later) => Len(q.log) = i /\ q.state = state /\ q.value = value
            /\ q.pos > Min(later) =>
                  /\ Len(q.log) > i
                  /\ q.log[i + 1].at = Min(later)
                  /\ q.log[i + 1].fn = (IF state = "fulfilled" THEN "fulfilled" ELSE "rejected")
                  /\ q.log[i + 1].arg = value

\* C5, in every state: a failed dispatch hands its error to the rejected
\* function of the first response interceptor that has one; a rejected
\* function of a response interceptor that returns a value puts the chain on
\* the fulfilment path with that value, one that throws keeps it on the
\* rejection path with the thrown error; wx.request is called at most once.
C5_State ==
    \A r \in 1..Len(requests) :
        LET q == requests[r]
        IN /\ Len(q.sent) <= 1
           /\ \A i \in 1..Len(q.log) :
                 /\ q.log[i].fn = "dispatchRequest" /\ DispatchFailed(q) =>
                       FollowsOn(q, i, "rejected", q.callbacks[1].payload)
                 /\ q.log[i].fn = "rejected" /\ q.log[i].name.phase = "response" =>
                       /\ q.log[i].threw => FollowsOn(q, i, "rejected", ThrownBy(q.log[i].name))
                       /\ ~q.log[i].threw => FollowsOn(q, i, "fulfilled", RecoveredBy(q.log[i].name))

\* C5, in every step: a failed chain becomes a fulfilled one only by a
\* rejected function that returned.
C5_Step ==
    \A r \in 1..Len(requests) :
        requests[r].state = "rejected" /\ requests'[r].state = "fulfilled" =>
            LET log2 == requests'[r].log
            IN /\ Len(log2) = Len(requests[r].log) + 1
               /\ log2[Len(log2)].fn = "rejected"
               /\ ~log2[Len(log2)].threw

\* C5: a dispatch failure goes to the first response rejection handler; its
\* return value resumes the fulfilment path, its throw keeps the failure
\* going; nothing else recovers a failure and dispatch is not retried.
C5_RecoveryIsExplicit == []C5_State /\ [][C5_Step]_vars

\* dispatch failed; the first response interceptor has no rejected function,
\* the second recovered, the third ran its fulfilled function, and the
\* request finished fulfilled
C5_Witness ==
    /\ Len(requests) = 1
    /\ DispatchFailed(requests[1])
    /\ Finished(requests[1])
    /\ requests[1].state = "fulfilled"
    /\ Ran(requests[1]) = << RanStep("dispatchRequest", NoName),
                             RanStep("rejected", Name("response", 2)),
                             RanStep("fulfilled", Name("response", 3)) >>
    /\ HandlersOf(1, "response")[1].tag = "handler"

\* C9: the promise of dispatchRequest is pending until the platform calls
\* back, and from then on it is settled the way the first callback says, with
\* that callback's payload, whatever is called later; a success payload is
\* what the next function that runs receives.
C9_SettledOnceByFirstCallback ==
    \A r \in 1..Len(requests) :
        LET q == requests[r]
        IN /\ q.callbacks = << >> => q.dispatch \in {"idle", "pending"}
           /\ q.callbacks # << >> =>
                 /\ q.dispatch = (IF q.callbacks[1].cb = "success" THEN "fulfilled" ELSE "rejected")
                 /\ q.dispatchValue = q.callbacks[1].payload
                 /\ q.state # "pending"
                 /\ \A i \in 1..Len(q.log) :
                       q.log[i].fn = "dispatchRequest" /\ q.callbacks[1].cb = "success" =>
                          FollowsOn(q, i, "fulfilled", q.callbacks[1].payload)

\* the platform called success and then fail; a response interceptor received
\* the success payload
C9_Witness ==
    /\ Len(requests) = 1
    /\ Len(requests[1].callbacks) = 2
    /\ requests[1].callbacks[1].cb = "success"
    /\ requests[1].callbacks[2].cb = "fail"
    /\ requests[1].dispatch = "fulfilled"
    /\ \E i \in RanAfterDispatch(requests[1]) :
          /\ requests[1].log[i].fn = "fulfilled"
          /\ requests[1].log[i].arg = requests[1].callbacks[1].payload

\* ---------------------------------------------------------------------------
\* the value the first function a request ran received
FirstReceived(q) == q.log[1].arg

DefaultsOf(q) == Spread(clients[q.client].defaults)

\* C2: the value the first function of a request receives holds every field
\* of the client's defaults, with the caller's value where the caller gave
\* one and the default's value otherwise.
C2_DefaultsMerged ==
    \A r \in 1..Len(requests) :
        LET q == requests[r]
        IN q.log # << >> =>
              /\ FirstReceived(q).kind = "object"
              /\ \A k \in DOMAIN DefaultsOf(q) :
                    /\ k \in DOMAIN FirstReceived(q).fields
                    /\ FirstReceived(q).fields[k] =
                          (IF k \in DOMAIN q.config.fields THEN q.config.fields[k]
                           ELSE DefaultsOf(q)[k])

\* C8: get(url, config) starts the chain with {...defaults, ...config,
\* method: 'get', url}.
C8_GetEffectiveConfig ==
    \A r \in 1..Len(requests) :
        LET q == requests[r]
        IN q.verb = "get" /\ q.log # << >> =>
              FirstReceived(q) =
                  Obj(Merge(Merge(DefaultsOf(q), Spread(q.callerConfig)),
                            [method |-> "get", url |-> q.url]))

\* ---------------------------------------------------------------------------
UsedOn(c, phase) == issued'[c][phase] # issued[c][phase]

RejectedOn(c, phase) == \E e \in ejected' \ ejected : e.client = c /\ e.phase = phase

\* C10, in every step: use or reject on one manager of one client leaves the
\* handlers and issued ids of every other manager, of the same client and of
\* the others, and the steps of every request as they were; create leaves
\* the existing clients as they were.
C10_Step ==
    /\ \A c \in Clients, phase \in Phases :
          UsedOn(c, phase) \/ RejectedOn(c, phase) =>
             /\ Len(clients') = Len(clients)
             /\ requests' = requests
             /\ \A d \in Clients, p \in Phases :
                   d # c \/ p # phase =>
                      /\ clients'[d].interceptors[p] = clients[d].interceptors[p]
                      /\ issued'[d][p] = issued[d][p]
    /\ Len(clients') # Len(clients) =>
          /\ requests' = requests
          /\ \A d \in Clients : clients'[d] = clients[d] /\ issued'[d] = issued[d]

\* C10, in every state: a manager holds the handlers registered with it and
\* no others, under the ids its own use calls returned.
C10_State ==
    \A c \in Clients, phase \in Phases :
        LET hs == HandlersOf(c, phase)
        IN /\ Len(hs) = Len(issued[c][phase])
           /\ \A k \in 1..Len(hs) :
                 /\ issued[c][phase][k] = k - 1
                 /\ hs[k] # Null => hs[k].name = Name(phase, k)

\* C10: client instances, and the two managers of one instance, share nothing.
C10_InstancesIndependent == []C10_State /\ [][C10_Step]_vars

\* two clients; a handler was registered with the request manager of the
\* created one and rejected, another with the response manager of the
\* singleton, whose request then ran it
C10_Witness ==
    /\ Len(clients) = 2
    /\ HandlersOf(2, "request") = <<Null>>
    /\ Len(HandlersOf(1, "response")) = 1
    /\ HandlersOf(1, "request") = << >>
    /\ HandlersOf(2, "response") = << >>
    /\ Len(requests) = 1
    /\ requests[1].client = 1
    /\ \E i \in 1..Len(requests[1].log) : requests[1].log[i].name = Name("response", 1)

\* ---------------------------------------------------------------------------
\* the manager of a phase after the step
HandlersAfter(c, phase) == clients'[c].interceptors[phase].handlers

\* the step is a reject(id) on this manager with an id at or past its end
RejectPastEnd(c, phase) ==
    \E e \in ejected' \ ejected :
        e.client = c /\ e.phase = phase /\ e.id + 1 > Len(HandlersOf(c, phase))

NextHandler(phase) == Handler(Name(phase, 0), TRUE, FALSE)

C16_Step ==
    \A c \in Clients, phase \in Phases :
        RejectPastEnd(c, phase) =>
            /\ ForEach(HandlersAfter(c, phase)) = ForEach(HandlersOf(c, phase))
            /\ UseId(HandlersAfter(c, phase), NextHandler(phase))
                   = UseId(HandlersOf(c, phase), NextHandler(phase))

\* C16: reject(id) with an id outside the manager's bounds is a no-op: forEach
\* visits the same handlers in the same order after it, and the next use
\* returns the id it would have returned without the call.
C16_RejectOutOfRangeNoOp == [][C16_Step]_vars

\* ---------------------------------------------------------------------------
InSeq(x, seq) == \E i \in 1..Len(seq) : seq[i] = x

\* C17: whatever use and reject calls were made, with ids issued or not, the
\* ids use returned on a manager are pairwise distinct, forEach visits
\* registered handlers only, each at most once, and the handler of the k-th
\* use is visited exactly if reject was never called with the id that use
\* returned (so a reject made with an id before use issued it does not hide
\* a handler registered later).
C17_IdsDistinctVisitedIffNotRejected ==
    \A c \in Clients, phase \in Phases :
        LET ids == issued[c][phase]
            seen == Visited(c, phase)
        IN /\ \A j \in 1..Len(ids), k \in 1..Len(ids) : ids[j] = ids[k] => j = k
           /\ \A k \in 1..Len(ids) :
                 InSeq(Name(phase, k), seen) <=> ~Ejected(c, phase, ids[k])
           /\ \A i \in 1..Len(seen) : \E k \in 1..Len(ids) : seen[i] = Name(phase, k)
           /\ \A i \in 1..Len(seen), j \in 1..Len(seen) : seen[i] = seen[j] => i = j

\* reject was called with an id use had not issued, use issued larger ids
\* afterwards, one of these was rejected and its handler is skipped, the
\* other handler is visited
C17_Witness ==
    \E phase \in Phases :
        LET ids == issued[1][phase]
        IN /\ Len(ids) = 2
           /\ \E e \in ejected :
                 /\ e.client = 1 /\ e.phase = phase
                 /\ e.id \notin IssuedIds(1, phase)
                 /\ e.id < ids[1]
           /\ Ejected(1, phase, ids[1])
           /\ Visited(1, phase) = <<Name(phase, 2)>>

\* ---------------------------------------------------------------------------
\* C18, in every state: reject(id) once more, for an id reject was called
\* with, yields the handlers the manager already has.
C18_State ==
    \A e \in ejected :
        LET hs == HandlersOf(e.client, e.phase)
            again == RejectHandlers(hs, e.id)
        IN /\ again = hs
           /\ ForEach(again) = ForEach(hs)
           /\ UseId(again, NextHandler(e.phase)) = UseId(hs, NextHandler(e.phase))

\* C18, in every step: a call that is neither a use nor a reject with a new
\* id, that is a reject repeated, changes no manager.
C18_Step ==
    (issued' = issued /\ ejected' = ejected /\ requests' = requests) => clients' = clients

\* C18: reject is idempotent: reject(id) for an id already rejected leaves
\* the slots, the traversal and the ids of later use calls as they are.
C18_RejectIdempotent == []C18_State /\ [][C18_Step]_vars

\* a manager on which an issued id and an id never issued were rejected,
\* with a handler left before and after the rejected one
C18_Witness ==
    \E phase \in Phases :
        LET hs == HandlersOf(1, phase)
        IN /\ Len(issued[1][phase]) = 3
           /\ Ejected(1, phase, issued[1][phase][2])
           /\ \E e \in ejected : e.client = 1 /\ e.phase = phase /\ e.id \notin IssuedIds(1, phase)
           /\ Len(Visited(1, phase)) = 2

\* ---------------------------------------------------------------------------
\* the fields a verb sets itself
VerbFields(verb) ==
    IF verb \in WithDataMethods THEN {"method", "url", "data"} ELSE {"method", "url"}

\* the fields of the config the caller gave to the verb, none when omitted
CallerFields(q) == IF q.callerConfig.kind = "object" THEN q.callerConfig.fields
                   ELSE EmptyFields

\* C19, in every state: the config a verb handed to request() has the verb as
\* method, the url argument as url and, for post, put and patch, the data
\* argument as data, whatever the caller config holds under these names;
\* its other fields are exactly the caller config's other fields.
C19_State ==
    \A r \in 1..Len(requests) :
        LET q == requests[r]
            own == VerbFields(q.verb)
            caller == CallerFields(q)
        IN q.verb # "request" =>
              /\ q.config.kind = "object"
              /\ DOMAIN q.config.fields = own \cup DOMAIN caller
              /\ q.config.fields.method = q.verb
              /\ q.config.fields.url = q.url
              /\ q.verb \in WithDataMethods => q.config.fields.data = q.data
              /\ \A k \in (DOMAIN caller) \ own : q.config.fields[k] = caller[k]
              /\ q.log # << >> => q.log[1].arg = q.config

\* C19, in every step: a call of a verb is one call of request() on the
\* client it was made on.
C19_Step ==
    Len(requests') > Len(requests) =>
        /\ Len(requests') = Len(requests) + 1
        /\ requests'[Len(requests')].client \in Clients
        /\ requests'[Len(requests')].pos = 1
        /\ \A r \in 1..Len(requests) : requests'[r] = requests[r]

\* C19: every verb makes one request() call with {...config, method, url}
\* (and data for post, put, patch), the verb's own arguments winning over the
\* caller config's fields of the same name, a missing config counting as {}.
C19_VerbsCallRequest == []C19_State /\ [][C19_Step]_vars

\* post was called with a config that carries its own method, url and data,
\* and what was sent has the verb's method, url and data
C19_Witness ==
    \E r \in 1..Len(requests) :
        LET q == requests[r]
        IN /\ q.sent # << >>
           /\ q.verb = "post"
           /\ q.callerConfig = Obj([method |-> "trace", url |-> "/other", data |-> "old"])
           /\ q.sent[1].method = "post"
           /\ q.sent[1].url = "/ping"
           /\ q.sent[1].data = "body"

\* ---------------------------------------------------------------------------
IsHandler(h) == h.tag = "handler"

\* the names of the handlers a manager holds, nulls and holes left out
LiveNames(hs) == NamesOf(SelectSeq(hs, IsHandler))

\* the handler a link of a chain belongs to; NoName for dispatchRequest
LinkName(pair) ==
    IF pair.fulfilled # UndefinedFn THEN pair.fulfilled.name ELSE pair.rejected.name

LinkNames(chain) == [i \in 1..Len(chain) |-> LinkName(chain[i])]

\* the links request() is to make of the managers of a client
ExpectedLinks(client) ==
    Reverse(LiveNames(client.interceptors.request.handlers))
        \o <<NoName>> \o LiveNames(client.interceptors.response.handlers)

\* C11, in every state: every step a request ran is a function of its own
\* chain, at the place of its link, and the steps ran in the order of the
\* links.
C11_State ==
    \A r \in 1..Len(requests) :
        LET q == requests[r]
        IN \A i \in 1..Len(q.log) :
              /\ q.log[i].at \in 1..Len(q.chain)
              /\ [fn |-> q.log[i].fn, name |-> q.log[i].name]
                     \in {q.chain[q.log[i].at].fulfilled, q.chain[q.log[i].at].rejected}
              /\ \A j \in 1..Len(q.log) : i < j => q.log[i].at < q.log[j].at

\* C11, in every step: request() makes its links of the handlers the two
\* managers hold when it is called, leaving out what was removed before; no
\* later step, a use or a reject least of all, changes the links of a
\* request made before or anything else of it.
C11_Step ==
    /\ \A r \in 1..Len(requests) :
          /\ r <= Len(requests')
          /\ requests'[r].chain = requests[r].chain
    /\ Len(requests') > Len(requests) =>
          LET q == requests'[Len(requests')]
          IN /\ LinkNames(q.chain) = ExpectedLinks(clients[q.client])
             /\ q.log = << >>
    /\ (\E c \in Clients, phase \in Phases : UsedOn(c, phase) \/ RejectedOn(c, phase))
          => requests' = requests

\* C11: the steps of a request are those of the handlers registered and not
\* removed when request() is called; use and reject after the call do not
\* touch them.
C11_ChainFixedAtCall == []C11_State /\ [][C11_Step]_vars

\* a request interceptor was removed and another registered while a request
\* made before was in flight; the removed one's step ran all the same, the
\* new one is no link of the request
C11_Witness ==
    /\ Len(requests) = 1
    /\ requests[1].client = 1
    /\ Len(issued[1]["request"]) = 2
    /\ Ejected(1, "request", issued[1]["request"][1])
    /\ HandlersOf(1, "request")[1] = Null
    /\ LinkNames(requests[1].chain) = <<Name("request", 1), NoName>>
    /\ \E i \in 1..Len(requests[1].log) : requests[1].log[i].name = Name("request", 1)

\* ---------------------------------------------------------------------------
\* the steps a request ran at links before dispatch
RanBeforeDispatch(q) == {i \in 1..Len(q.log) : q.log[i].at < DispatchAt(q)}

Max(S) == CHOOSE x \in S : \A y \in S : y <= x

\* how the link right before dispatch settled: as the last step that ran
\* before dispatch left its link (links without a function for it hand it
\* on), or as the first promise, fulfilled with the config, if none ran
BeforeDispatch(q) ==
    IF RanBeforeDispatch(q) = {} THEN [state |-> "fulfilled", value |-> q.config]
    ELSE q.log[Max(RanBeforeDispatch(q))].out

\* the link of dispatch has had its turn
DispatchDecided(q) ==
    \/ q.pos > DispatchAt(q)
    \/ q.pos = DispatchAt(q) /\ q.state = "pending"

DispatchSteps(q) == {i \in 1..Len(q.log) : q.log[i].fn = "dispatchRequest"}

\* C15: the platform's request function is called at most once per request,
\* and not before the links ahead of dispatch have settled; once the link of
\* dispatch has had its turn, it was called exactly if the link right before
\* settled fulfilled (a rejected function recovering counts), dispatchRequest
\* received that link's value, and the fields of that value were sent.
C15_DispatchOnceOnFulfilled ==
    \A r \in 1..Len(requests) :
        LET q == requests[r]
            before == BeforeDispatch(q)
        IN /\ Len(q.sent) <= 1
           /\ Len(q.sent) = Cardinality(DispatchSteps(q))
           /\ ~DispatchDecided(q) => q.sent = << >>
           /\ DispatchDecided(q) /\ before.state = "rejected" => q.sent = << >>
           /\ DispatchDecided(q) /\ before.state = "fulfilled" =>
                 /\ Len(q.sent) = 1
                 /\ \A i \in DispatchSteps(q) :
                       /\ q.log[i].at = DispatchAt(q)
                       /\ q.log[i].arg = before.value
                 /\ before.value.kind = "object" => q.sent[1] = before.value.fields

\* a request interceptor threw, the rejected function of the first
\* registered one recovered, and the platform was called with what it
\* returned
C15_Witness ==
    /\ Len(requests) = 1
    /\ LET q == requests[1]
       IN /\ Finished(q)
          /\ Len(q.sent) = 1
          /\ \E i \in RanBeforeDispatch(q) :
                /\ q.log[i].fn = "rejected"
                /\ q.log[i].at = DispatchAt(q) - 1
                /\ ~q.log[i].threw
          /\ \E i \in RanBeforeDispatch(q) : q.log[i].fn = "fulfilled" /\ q.log[i].threw

\* ---------------------------------------------------------------------------
\* step i of a request has started and its link has not settled yet
Running(q, i) ==
    IF q.log[i].fn = "dispatchRequest" THEN q.dispatch = "pending"
    ELSE q.log[i].out.state = "pending"

\* how the link of step i settled
OutOf(q, i) ==
    IF q.log[i].fn = "dispatchRequest" THEN [state |-> q.dispatch, value |-> q.dispatchValue]
    ELSE q.log[i].out

\* the function a link has for a promise settled this way
FunctionFor(state, pair) == IF state = "fulfilled" THEN pair.fulfilled ELSE pair.rejected

\* step j is what then() asks for after a link settled with state and value
\* at place p of the chain (p = 0: the first promise): it is the function
\* for that state of its link, it received the value, and the links between
\* have no function for that state
SelectedAfter(q, p, state, value, j) ==
    /\ q.log[j].at > p
    /\ [fn |-> q.log[j].fn, name |-> q.log[j].name] = FunctionFor(state, q.chain[q.log[j].at])
    /\ q.log[j].arg = value
    /\ \A k \in (p + 1)..(q.log[j].at - 1) : FunctionFor(state, q.chain[k]) = UndefinedFn

\* C12, in every state: a step that is running is the last one started and
\* the request waits for it; every other step started after the one before
\* it had settled and is the one function its link has for that settlement;
\* no link ran two functions.
C12_State ==
    \A r \in 1..Len(requests) :
        LET q == requests[r]
            n == Len(q.log)
        IN /\ \A i \in 1..n : Running(q, i) => i = n /\ q.state = "pending"
           /\ Cardinality({i \in 1..n : Running(q, i)}) <= 1
           /\ n >= 1 => SelectedAfter(q, 0, "fulfilled", q.config, 1)
           /\ \A i \in 1..(n - 1) :
                 /\ OutOf(q, i).state \in {"fulfilled", "rejected"}
                 /\ SelectedAfter(q, q.log[i].at, OutOf(q, i).state, OutOf(q, i).value, i + 1)

\* C12, in every step: a step starts only when no step of its request is
\* running, and one at a time.
C12_Step ==
    \A r \in 1..Len(requests) :
        LET q == requests[r]
        IN Len(requests'[r].log) > Len(q.log) =>
              /\ Len(requests'[r].log) = Len(q.log) + 1
              /\ q.state # "pending"
              /\ \A i \in 1..Len(q.log) : ~Running(q, i)

\* C12: the steps of a request run one after another: the next link's step
\* starts after the link before has settled, the promise its step returned
\* included; one step runs at a time; each link runs the one function
\* selected by how the link before settled.
C12_StrictlySequential == []C12_State /\ [][C12_Step]_vars

\* a request interceptor's promise settled late, dispatch ran with its
\* value, and the promise of a response interceptor was rejected and handed to
\* the rejected function of the next one
C12_Witness ==
    /\ Len(requests) = 1
    /\ LET q == requests[1]
       IN /\ Len(q.sent) = 1
          /\ "header" \in DOMAIN q.sent[1]
          /\ "x-token=late" \in q.sent[1].header
          /\ \E i \in 1..(Len(q.log) - 1) :
                /\ q.log[i].at > DispatchAt(q)
                /\ q.log[i].out = Threw(RejectedBy(q.log[i].name))
                /\ q.log[i + 1].fn = "rejected"
                /\ q.log[i + 1].arg = RejectedBy(q.log[i].name)

\* ---------------------------------------------------------------------------
\* the promise request() returned is settled
Settled(q) == Finished(q) /\ q.state \in {"fulfilled", "rejected"}

\* C14: when the platform calls back and the promises interceptor steps
\* return settle, the promise request() returned is settled in the end,
\* whatever is registered and whatever fails on the way.
C14_EventuallySettled ==
    (requests # << >>) ~> (requests # << >> /\ Settled(requests[1]))

\* a request went through an interceptor's late promise and through
\* dispatch and is settled
C14_Witness ==
    /\ Len(requests) = 1
    /\ Settled(requests[1])
    /\ Len(requests[1].callbacks) = 1
    /\ \E i \in 1..Len(requests[1].log) :
          requests[1].log[i].out = Threw(RejectedBy(requests[1].log[i].name))

\* ---------------------------------------------------------------------------
\* how the last link that had its turn settled: as the last step that ran
\* left its link, or as the first promise if none ran
LastSettlement(q) ==
    IF q.log = << >> THEN [state |-> "fulfilled", value |-> q.config]
    ELSE OutOf(q, Len(q.log))

\* C13, in every state, for every request in flight or done, whatever other
\* requests there are: its first step received its own config, every later
\* step what the step before it of the same request produced; what was sent
\* for it is what its own steps before dispatch produced, with its own url;
\* its dispatch settled as the platform's first callback for it says; and its
\* promise holds what its own last step produced.
C13_State ==
    \A r \in 1..Len(requests) :
        LET q == requests[r]
            n == Len(q.log)
        IN /\ n >= 1 => SelectedAfter(q, 0, "fulfilled", q.config, 1)
           /\ \A i \in 1..(n - 1) :
                 SelectedAfter(q, q.log[i].at, OutOf(q, i).state, OutOf(q, i).value, i + 1)
           /\ q.sent # << >> =>
                 /\ BeforeDispatch(q).value.kind = "object" =>
                       q.sent[1] = BeforeDispatch(q).value.fields
                 /\ "url" \in DOMAIN q.sent[1] => q.sent[1].url = q.config.fields.url
           /\ q.callbacks # << >> =>
                 /\ q.dispatch = (IF q.callbacks[1].cb = "success" THEN "fulfilled" ELSE "rejected")
                 /\ q.dispatchValue = q.callbacks[1].payload
           /\ q.state # "pending" =>
                 [state |-> q.state, value |-> q.value] = LastSettlement(q)

\* C13, in every step: a step of one request, or a call of request(), leaves
\* every other request as it is.
C13_Step ==
    /\ Len(requests') >= Len(requests)
    /\ \A r \in 1..Len(requests), s \in 1..Len(requests) :
          r # s /\ requests'[r] # requests[r] => requests'[s] = requests[s]
    /\ Len(requests') > Len(requests) =>
          \A r \in 1..Len(requests) : requests'[r] = requests[r]

\* C13: request() calls in flight at the same time on one client do not
\* interfere: each goes through its own links with its own values.
C13_RequestsIndependent == []C13_State /\ [][C13_Step]_vars

\* two requests went through the same request interceptor and were sent with
\* their own urls; the second is settled, through the response interceptor,
\* while the first still waits for the platform
C13_Witness ==
    /\ Len(requests) = 2
    /\ requests[1].dispatch = "pending"
    /\ Len(requests[1].log) = 2
    /\ requests[1].sent[1].url = "/first"
    /\ Settled(requests[2])
    /\ Len(requests[2].log) = 3
    /\ requests[2].sent[1].url = "/second"
    /\ requests[2].log[3].arg = requests[2].callbacks[1].payload

====
